---------------------------- MODULE Spec2Model ----------------------------
(***************************************************************************)
(* A model of the helper functions of notebooks/timing.ipynb:              *)
(*   common_neighbors(lst1, lst2)   adjacent-pair overlap of two lists     *)
(*   cosine(a, b)                   cosine of the angle of two vectors     *)
(*   gen_sum_wrap / loop_sum_wrap / loop_sum   three ways to add a list    *)
(*                                                                         *)
(* cosine works on numpy float64 arrays.  Floating point is modelled by a  *)
(* binary format of the IEEE 754 shape with Prec significand bits and the  *)
(* exponent range 1-EMax .. EMax: gradual underflow, overflow to infinity, *)
(* NaN, and round-to-nearest-even after every operation.  A finite value   *)
(* is kept as an integer count n of the smallest subnormal, 2^-Scale.      *)
(* The two zeros of IEEE 754 compare equal and are kept as one.            *)
(***************************************************************************)
EXTENDS Integers, Sequences, FiniteSets

\* ------------------------------------------------------------- bounds
Prec == 3          \* significand bits of the float format
EMax == 3          \* largest exponent; the smallest normal one is 1 - EMax
MaxDim == 2        \* largest dimension of the vectors given to cosine
MaxLen == 3        \* longest list given to common_neighbors
MaxElem == 2       \* list elements are 1..MaxElem
MaxSumLen == 3     \* longest list given to the sum functions
MaxVal == 2        \* numbers in the summed list are -MaxVal..MaxVal
NProcs == 2        \* call sites running the functions at the same time

\* ------------------------------------------------------ float format
RECURSIVE Pow2(_)
Pow2(k) == IF k <= 0 THEN 1 ELSE 2 * Pow2(k - 1)

EMin == 1 - EMax
Scale == Prec - 1 - EMin
OneN == Pow2(Scale)
MaxN == (Pow2(Prec) - 1) * Pow2(EMax - EMin)

Abs(n) == IF n < 0 THEN -n ELSE n
Sgn(n) == IF n < 0 THEN -1 ELSE IF n > 0 THEN 1 ELSE 0

Fin(n) == [k |-> "fin", n |-> n]
Inf(s) == [k |-> "inf", n |-> s]
NaN == [k |-> "nan", n |-> 0]
FZero == Fin(0)
FOne == Fin(OneN)
FTiny == Fin(1)
FHuge == Fin(MaxN)
FNeg(x) == [x EXCEPT !.n = -x.n]

\* The gap between the floats around the magnitude n: 1 among the subnormals
\* and in the first binade, doubling with every binade after it.
RECURSIVE Ulp(_)
Ulp(n) == IF n < Pow2(Prec) THEN 1 ELSE 2 * Ulp(n \div 2)
Below(n) == IF n >= MaxN THEN MaxN ELSE (n \div Ulp(n)) * Ulp(n)
EvenSig(n) == (n \div Ulp(n)) % 2 = 0

\* The float nearest to the exact magnitude num/den (in units of 2^-Scale),
\* ties to the even significand, infinity from half a gap above MaxN on.
RoundMag(num, den) ==
    LET lo == Below(num \div den)
        hi == lo + Ulp(lo)
    IN  IF lo = MaxN
        THEN IF 2 * num >= (2 * MaxN + Ulp(MaxN)) * den THEN Inf(1) ELSE Fin(MaxN)
        ELSE IF 2 * num < (lo + hi) * den THEN Fin(lo)
        ELSE IF 2 * num > (lo + hi) * den THEN Fin(hi)
        ELSE IF EvenSig(lo) THEN Fin(lo) ELSE Fin(hi)
WithSign(s, x) == IF s < 0 THEN FNeg(x) ELSE x

FMul(x, y) ==
    IF x.k = "nan" \/ y.k = "nan" THEN NaN
    ELSE IF x.k = "inf" \/ y.k = "inf"
         THEN IF x.n = 0 \/ y.n = 0 THEN NaN ELSE Inf(Sgn(x.n) * Sgn(y.n))
    ELSE WithSign(Sgn(x.n) * Sgn(y.n), RoundMag(Abs(x.n) * Abs(y.n), OneN))

FAdd(x, y) ==
    IF x.k = "nan" \/ y.k = "nan" THEN NaN
    ELSE IF x.k = "inf" /\ y.k = "inf" THEN (IF x.n = y.n THEN x ELSE NaN)
    ELSE IF x.k = "inf" THEN x
    ELSE IF y.k = "inf" THEN y
    ELSE WithSign(Sgn(x.n + y.n), RoundMag(Abs(x.n + y.n), 1))

\* The integer square root, rounded down.
RECURSIVE Isqrt(_)
Isqrt(n) ==
    IF n < 2 THEN n
    ELSE LET s == 2 * Isqrt(n \div 4)
         IN  IF (s + 1) * (s + 1) <= n THEN s + 1 ELSE s

\* x ** -0.5: 1/sqrt(x) rounded to nearest.  For the magnitude n the result
\* (in units) is the float nearest to sqrt(t / n), t = 2^(3*Scale): r is not
\* above it iff r*r <= t/n, and the midpoint of lo and hi is below it iff
\* (lo+hi)^2 < 4t/n.  A zero base gives infinity (numpy's divide-by-zero), an
\* infinite one 0, a negative one NaN.
PowNegHalf(x) ==
    IF x.k = "nan" THEN NaN
    ELSE IF x.n < 0 THEN NaN
    ELSE IF x.k = "inf" THEN FZero
    ELSE IF x.n = 0 THEN Inf(1)
    ELSE LET t == Pow2(3 * Scale)
             lo == Below(Isqrt(t \div x.n))
             hi == lo + Ulp(lo)
             mid2 == (lo + hi) * (lo + hi)
         IN  IF lo = MaxN THEN Fin(MaxN)
             ELSE IF mid2 <= (4 * t - 1) \div x.n THEN Fin(hi)
             ELSE IF (4 * t) % x.n = 0 /\ mid2 = (4 * t) \div x.n
                  THEN (IF EvenSig(lo) THEN Fin(lo) ELSE Fin(hi))
             ELSE Fin(lo)

\* x == 0.0 of Python: false of NaN and of the infinities.
IsZero(x) == x.k = "fin" /\ x.n = 0

\* --------------------------------------------------------------- cosine
RECURSIVE np_sum(_)
np_sum(v) == IF v = <<>> THEN FZero
             ELSE FAdd(np_sum(SubSeq(v, 1, Len(v) - 1)), v[Len(v)])
Square(v) == [i \in 1..Len(v) |-> FMul(v[i], v[i])]
np_dot(v, w) == np_sum([i \in 1..Len(v) |-> FMul(v[i], w[i])])

sumSq(v) == np_sum(Square(v))
Fallback(v, w) == IsZero(sumSq(v)) \/ IsZero(sumSq(w))
PowArg(v, w) == FMul(sumSq(v), sumSq(w))
\* cosine without the "or sumSqB == 0.0" half of the fallback test.
cosine_testing_a_only(v, w) ==
    IF IsZero(sumSq(v)) THEN FZero
    ELSE FMul(np_dot(v, w), PowNegHalf(PowArg(v, w)))

cosine(v, w) ==
    IF Fallback(v, w) THEN FZero
    ELSE FMul(np_dot(v, w), PowNegHalf(PowArg(v, w)))

\* ----------------------------------------------------- common_neighbors
\* utils.neighbors: the adjacent pairs of a list, in order.
neighbors(l) == [i \in 1..(Len(l) - 1) |-> <<l[i], l[i + 1]>>]

\* Python's int(True) = 1, int(False) = 0, as sum() adds them.
BoolInt(t) == IF t THEN 1 ELSE 0

\* Python's builtin sum over the items of an iterable: 0 + x1 + x2 + ...
RECURSIVE py_sum(_)
py_sum(xs) == IF xs = <<>> THEN 0
              ELSE py_sum(SubSeq(xs, 1, Len(xs) - 1)) + xs[Len(xs)]

\* The generator of common_neighbors: pair1 in the outer loop, pair2 inner.
PairTests(l1, l2) ==
    LET P1 == neighbors(l1)
        P2 == neighbors(l2)
    IN  [k \in 1..(Len(P1) * Len(P2)) |->
            BoolInt(P1[((k - 1) \div Len(P2)) + 1] = P2[((k - 1) % Len(P2)) + 1])]

\* The pairs a list has, and how often a list has a pair.
PairSet(l) == {neighbors(l)[i] : i \in 1..(Len(l) - 1)}
Occurrences(l, p) == Cardinality({i \in 1..(Len(l) - 1) : neighbors(l)[i] = p})

\* common_neighbors as a set intersection: len(set(...) & set(...)).
common_neighbors_as_sets(l1, l2) == Cardinality(PairSet(l1) \cap PairSet(l2))
\* common_neighbors with both loops over the neighbors of lst1.
common_neighbors_lst1_twice(l1, l2) == py_sum(PairTests(l1, l1))
\* common_neighbors comparing the elements, not their pairs.
common_neighbors_of_elements(l1, l2) ==
    py_sum([k \in 1..(Len(l1) * Len(l2)) |->
               BoolInt(l1[((k - 1) \div Len(l2)) + 1] = l2[((k - 1) % Len(l2)) + 1])])
\* common_neighbors comparing only the first element of each pair.
common_neighbors_first_only(l1, l2) ==
    py_sum([k \in 1..(Len(neighbors(l1)) * Len(neighbors(l2))) |->
               BoolInt(neighbors(l1)[((k - 1) \div Len(neighbors(l2))) + 1][1]
                       = neighbors(l2)[((k - 1) % Len(neighbors(l2))) + 1][1])])

common_neighbors(l1, l2) == py_sum(PairTests(l1, l2))

\* ------------------------------------------------------------ the sums
\* class Wrap: an object with the one attribute a.  The heap maps the
\* identity of each Wrap object to its attributes.
Wrap(v) == [a |-> v]

gen_sum_wrap(l, h) == py_sum([i \in 1..Len(l) |-> h[l[i]].a])

RECURSIVE loop_sum_wrap_from(_, _, _, _)
loop_sum_wrap_from(l, h, i, sum_) ==
    IF i > Len(l) THEN sum_
    ELSE loop_sum_wrap_from(l, h, i + 1, sum_ + h[l[i]].a)
\* loop_sum_wrap with "sum_ = w.a" for "sum_ += w.a".
loop_sum_wrap_assigning(l, h) == IF l = <<>> THEN 0 ELSE h[l[Len(l)]].a

loop_sum_wrap(l, h) == loop_sum_wrap_from(l, h, 1, 0)

RECURSIVE loop_sum_from(_, _, _)
loop_sum_from(l, i, sum_) ==
    IF i > Len(l) THEN sum_ ELSE loop_sum_from(l, i + 1, sum_ + l[i])
loop_sum(l) == loop_sum_from(l, 1, 0)

\* ---------------------------------------------------------------- state
VARIABLES
    cell,       \* which group of notebook cells runs: "cn", "cos" or "sum"
    lst1, lst2, \* the lists given to common_neighbors
    a, b,       \* the vectors given to cosine
    lst,        \* the list of numbers
    w_lst,      \* the list of Wrap objects (their identities)
    heap,       \* identity of a Wrap object -> its attributes
    ret,        \* what each call returned
    returned,   \* the calls that have returned
    pc,         \* concurrent call sites: where each one is in its call
    frame       \* concurrent call sites: the local variables of each call

vars == <<cell, lst1, lst2, a, b, lst, w_lst, heap, ret, returned, pc, frame>>
inputs == <<cell, lst1, lst2, a, b, lst, w_lst, heap>>
Procs == 1..NProcs
NoFrame == [i |-> 1, j |-> 1, sum_ |-> 0, sumSqA |-> FZero, sumSqB |-> FZero,
            cn |-> 0, cos |-> FZero]
NoCallSites == pc = [p \in Procs |-> "idle"] /\ frame = [p \in Procs |-> NoFrame]

RECURSIVE SeqsUpTo(_, _)
SeqsUpTo(S, n) ==
    IF n = 0 THEN {<<>>}
    ELSE LET R == SeqsUpTo(S, n - 1)
         IN  R \cup {Append(s, x) : s \in {r \in R : Len(r) = n - 1}, x \in S}

\* The sample values of a vector component: zero, one, the float after one,
\* the smallest subnormal and the largest finite float.
InVals == {FZero, FOne, FNeg(FOne), Fin(OneN + Ulp(OneN)), FTiny, FHuge}
Vectors(d) == {v \in SeqsUpTo(InVals, d) : Len(v) = d}

\* The two calls written out in the notebook and in the spec's examples.
Examples == {<< <<1, 2, 3>>, <<3, 1, 2>> >>, << <<1, 2, 3, 1, 2>>, <<1, 2, 4, 1, 2>> >>}

NoRet == [cnAB |-> 0, cnBA |-> 0, cosAB |-> FZero, cosBA |-> FZero,
          branch |-> "none", powArg |-> FOne,
          gen_sum_wrap |-> 0, loop_sum_wrap |-> 0, loop_sum |-> 0]

NoLists == lst1 = <<>> /\ lst2 = <<>>
NoVectors == a = <<>> /\ b = <<>>
NoSumList == lst = <<>> /\ w_lst = <<>> /\ heap = <<>>

InitCN ==
    /\ cell = "cn"
    /\ \E p \in (SeqsUpTo(1..MaxElem, MaxLen) \X SeqsUpTo(1..MaxElem, MaxLen))
                    \cup Examples :
            lst1 = p[1] /\ lst2 = p[2]
    /\ NoVectors /\ NoSumList

InitCos ==
    /\ cell = "cos"
    /\ \E d \in 1..MaxDim : a \in Vectors(d) /\ b \in Vectors(d)
    /\ NoLists /\ NoSumList

\* lst = [...]; w_lst = [Wrap(v) for v in lst]
InitSum ==
    /\ cell = "sum"
    /\ lst \in SeqsUpTo((-MaxVal)..MaxVal, MaxSumLen)
    /\ w_lst = [i \in 1..Len(lst) |-> i]
    /\ heap = [i \in 1..Len(lst) |-> Wrap(lst[i])]
    /\ NoLists /\ NoVectors

Init ==
    /\ InitCN \/ InitCos \/ InitSum
    /\ ret = NoRet
    /\ returned = {}
    /\ NoCallSites

Return(call, v) ==
    /\ call \notin returned
    /\ ret' = [ret EXCEPT ![call] = v]
    /\ returned' = returned \cup {call}
    /\ UNCHANGED <<inputs, pc, frame>>

\* common_neighbors(lst1, lst2)
CallCommonNeighbors ==
    /\ cell = "cn"
    /\ Return("cnAB", common_neighbors(lst1, lst2))

\* common_neighbors(lst2, lst1)
CallCommonNeighborsSwapped ==
    /\ cell = "cn" /\ "cnAB" \in returned
    /\ Return("cnBA", common_neighbors(lst2, lst1))

\* cosine(a, b), with the return statement it left by and the base of **
CallCosine ==
    /\ cell = "cos"
    /\ "cosAB" \notin returned
    /\ ret' = [ret EXCEPT !.cosAB = cosine(a, b),
                          !.branch = IF Fallback(a, b) THEN "fallback" ELSE "main",
                          !.powArg = IF Fallback(a, b) THEN @ ELSE PowArg(a, b)]
    /\ returned' = returned \cup {"cosAB"}
    /\ UNCHANGED <<inputs, pc, frame>>

\* cosine(b, a)
CallCosineSwapped ==
    /\ cell = "cos" /\ "cosAB" \in returned
    /\ Return("cosBA", cosine(b, a))

CallGenSumWrap ==
    /\ cell = "sum"
    /\ Return("gen_sum_wrap", gen_sum_wrap(w_lst, heap))

CallLoopSumWrap ==
    /\ cell = "sum" /\ "gen_sum_wrap" \in returned
    /\ Return("loop_sum_wrap", loop_sum_wrap(w_lst, heap))

CallLoopSum ==
    /\ cell = "sum" /\ "loop_sum_wrap" \in returned
    /\ Return("loop_sum", loop_sum(lst))

Next ==
    \/ CallCommonNeighbors
    \/ CallCommonNeighborsSwapped
    \/ CallCosine
    \/ CallCosineSwapped
    \/ CallGenSumWrap
    \/ CallLoopSumWrap
    \/ CallLoopSum

Spec == Init /\ [][Next]_vars

\* ------------------------------------------------- concurrent call sites
\* Several call sites run common_neighbors(lst1, lst2) and cosine(a, b) on the
\* same lists and arrays, one step of one call at a time: one test of the
\* generator of common_neighbors, one statement of cosine.
ConcLists == {<<1>>, <<1, 2, 1>>, <<2, 1, 2>>}
ConcVectors == {<<FZero, FZero>>, <<FOne, Fin(OneN + Ulp(OneN))>>, <<FTiny, FNeg(FOne)>>}

InitConc ==
    /\ cell = "conc"
    /\ lst1 \in ConcLists /\ lst2 \in ConcLists
    /\ a \in ConcVectors /\ b \in ConcVectors
    /\ NoSumList
    /\ ret = NoRet /\ returned = {}
    /\ NoCallSites

Goto(p, label, locals) ==
    /\ pc' = [pc EXCEPT ![p] = label]
    /\ frame' = [frame EXCEPT ![p] = locals]
    /\ UNCHANGED <<inputs, ret, returned>>

\* a call site enters common_neighbors(lst1, lst2)
EnterCommonNeighbors(p) ==
    /\ pc[p] = "idle"
    /\ Goto(p, "cn_generator", frame[p])

\* the next item of the generator: pair1 == pair2 is added to the sum, the
\* inner loop over neighbors(lst2) starts again for the next pair1, or the
\* outer loop over neighbors(lst1) is exhausted and sum() returns
StepCommonNeighbors(p) ==
    /\ pc[p] = "cn_generator"
    /\ LET f == frame[p]
           P1 == neighbors(lst1)
           P2 == neighbors(lst2)
       IN  IF f.i > Len(P1)
           THEN Goto(p, "done_cn", [f EXCEPT !.cn = f.sum_])
           ELSE IF f.j > Len(P2)
           THEN Goto(p, "cn_generator", [f EXCEPT !.i = f.i + 1, !.j = 1])
           ELSE Goto(p, "cn_generator",
                     [f EXCEPT !.sum_ = f.sum_ + BoolInt(P1[f.i] = P2[f.j]),
                               !.j = f.j + 1])

\* a call site enters cosine(a, b)
EnterCosine(p) ==
    /\ pc[p] = "idle"
    /\ Goto(p, "cos_sumSqA", frame[p])

\* sumSqA = np.sum(a**2.0) written as a **= 2.0; sumSqA = np.sum(a)
CosineSumSqA_in_place(p) ==
    /\ pc[p] = "cos_sumSqA"
    /\ pc' = [pc EXCEPT ![p] = "cos_sumSqB"]
    /\ a' = Square(a)
    /\ frame' = [frame EXCEPT ![p].sumSqA = np_sum(Square(a))]
    /\ UNCHANGED <<cell, lst1, lst2, b, lst, w_lst, heap, ret, returned>>

\* sumSqA = np.sum(a**2.0): a**2.0 is a new array, a is only read
CosineSumSqA(p) ==
    /\ pc[p] = "cos_sumSqA"
    /\ Goto(p, "cos_sumSqB", [frame[p] EXCEPT !.sumSqA = sumSq(a)])

\* sumSqB = np.sum(b**2.0)
CosineSumSqB(p) ==
    /\ pc[p] = "cos_sumSqB"
    /\ Goto(p, "cos_test", [frame[p] EXCEPT !.sumSqB = sumSq(b)])

\* if sumSqA == 0.0 or sumSqB == 0.0: return 0.0
CosineTest(p) ==
    /\ pc[p] = "cos_test"
    /\ IF IsZero(frame[p].sumSqA) \/ IsZero(frame[p].sumSqB)
       THEN Goto(p, "done_cos", [frame[p] EXCEPT !.cos = FZero])
       ELSE Goto(p, "cos_return", frame[p])

\* return np.dot(a,b) * (sumSqA * sumSqB)**-0.5
CosineReturn(p) ==
    /\ pc[p] = "cos_return"
    /\ Goto(p, "done_cos",
            [frame[p] EXCEPT !.cos =
                FMul(np_dot(a, b), PowNegHalf(FMul(frame[p].sumSqA, frame[p].sumSqB)))])

NextConc ==
    \E p \in Procs :
        \/ EnterCommonNeighbors(p)
        \/ StepCommonNeighbors(p)
        \/ EnterCosine(p)
        \/ CosineSumSqA(p)
        \/ CosineSumSqB(p)
        \/ CosineTest(p)
        \/ CosineReturn(p)

SpecConc == InitConc /\ [][NextConc]_vars

\* ------------------------------------------------------------- claims
ZeroVec(v) == \A i \in 1..Len(v) : IsZero(v[i])

RECURSIVE SumOver(_, _, _)
SumOver(S, l1, l2) ==
    IF S = {} THEN 0
    ELSE LET p == CHOOSE q \in S : TRUE
         IN  Occurrences(l1, p) * Occurrences(l2, p) + SumOver(S \ {p}, l1, l2)

MatchingIndexPairs(l1, l2) ==
    {ij \in (1..(Len(l1) - 1)) \X (1..(Len(l2) - 1)) :
        l1[ij[1]] = l2[ij[2]] /\ l1[ij[1] + 1] = l2[ij[2] + 1]}

\* C1: common_neighbors(seq1, seq2) is the number of index pairs (i, j) with
\* seq1[i] = seq2[j] and seq1[i+1] = seq2[j+1]; a pair occurring k1 times in
\* seq1 and k2 times in seq2 contributes k1*k2; [1,2,3] vs [3,1,2] gives 1 and
\* [1,2,3,1,2] vs [1,2,4,1,2] gives 4.
C1_CountsIndexPairs ==
    "cnAB" \in returned =>
        /\ ret.cnAB = Cardinality(MatchingIndexPairs(lst1, lst2))
        /\ ret.cnAB = SumOver(PairSet(lst1) \cup PairSet(lst2), lst1, lst2)
        /\ (lst1 = <<1, 2, 3>> /\ lst2 = <<3, 1, 2>>) => ret.cnAB = 1
        /\ (lst1 = <<1, 2, 3, 1, 2>> /\ lst2 = <<1, 2, 4, 1, 2>>) => ret.cnAB = 4
C1_Witness ==
    /\ "cnAB" \in returned
    /\ lst1 = <<1, 2, 3, 1, 2>> /\ lst2 = <<1, 2, 4, 1, 2>>
    /\ ret.cnAB = 4
    /\ Cardinality(PairSet(lst1) \cap PairSet(lst2)) = 1

\* C4: with an argument of length 0 or 1 common_neighbors returns 0 whatever
\* the other argument is, and every result is a non-negative integer.  (That
\* the call completes shows in the call returning for every pair of lists.)
C4_ShortListsGiveZero ==
    "cnAB" \in returned =>
        /\ ret.cnAB \in Nat
        /\ (Len(lst1) <= 1 \/ Len(lst2) <= 1) => ret.cnAB = 0
C4_Witness ==
    /\ "cnAB" \in returned
    /\ Len(lst1) = 1 /\ Len(lst2) >= 3
    /\ lst1[1] = lst2[1]
    /\ ret.cnAB = 0

\* C5: common_neighbors(S1, S2) = common_neighbors(S2, S1).
C5_Symmetric ==
    {"cnAB", "cnBA"} \subseteq returned => ret.cnAB = ret.cnBA
C5_Witness ==
    /\ {"cnAB", "cnBA"} \subseteq returned
    /\ Len(lst1) # Len(lst2)
    /\ ret.cnAB >= 2 /\ ret.cnBA >= 2

\* C6: common_neighbors(S, S) is the sum over the distinct adjacent pairs of S
\* of the square of their number of occurrences; for len(S) >= 2 it is at
\* least len(S)-1, and it is len(S)-1 exactly when the pairs are all distinct.
C6_SelfOverlap ==
    ("cnAB" \in returned /\ lst1 = lst2) =>
        /\ ret.cnAB = SumOver(PairSet(lst1), lst1, lst1)
        /\ Len(lst1) >= 2 =>
            /\ ret.cnAB >= Len(lst1) - 1
            /\ ret.cnAB = Len(lst1) - 1 <=> Cardinality(PairSet(lst1)) = Len(lst1) - 1
C6_Witness ==
    /\ "cnAB" \in returned /\ lst1 = lst2
    /\ Cardinality(PairSet(lst1)) < Len(lst1) - 1
    /\ ret.cnAB > Len(lst1) - 1

\* C2: cosine leaves by the fallback, returning 0.0, whenever a or b is the
\* all-zero vector, and only then; so the base of ** -0.5 is never zero.
C2_FallbackIffZeroVector ==
    "cosAB" \in returned =>
        /\ ret.branch = "fallback" <=> (ZeroVec(a) \/ ZeroVec(b))
        /\ ret.branch = "fallback" => ret.cosAB = FZero
        /\ ret.branch = "main" => ~IsZero(ret.powArg)

\* C3: the value cosine returns lies in [-1, 1].
C3_InUnitInterval ==
    "cosAB" \in returned => (ret.cosAB.k = "fin" /\ Abs(ret.cosAB.n) <= OneN)

\* C7: cosine(v, v) is 1.0 for every non-zero vector v.
C7_SelfSimilarityIsOne ==
    ("cosAB" \in returned /\ a = b /\ ~ZeroVec(a)) => ret.cosAB = FOne

\* C8: cosine(a, b) and cosine(b, a) return the same float (the same NaN
\* included), for non-zero vectors and for all-zero ones.
C8_CosineSymmetric ==
    {"cosAB", "cosBA"} \subseteq returned => ret.cosAB = ret.cosBA
C8_Witness ==
    /\ {"cosAB", "cosBA"} \subseteq returned
    /\ a # b /\ ~ZeroVec(a) /\ ~ZeroVec(b)
    /\ ret.cosAB.k = "fin" /\ ret.cosAB.n # 0
    /\ ret.cosAB = ret.cosBA

\* The sum of a list of numbers, from its last element back.
RECURSIVE Total(_)
Total(l) == IF l = <<>> THEN 0 ELSE Head(l) + Total(Tail(l))

\* C10: loop_sum_wrap(w_lst), gen_sum_wrap(w_lst) and loop_sum(lst) return the
\* same total, the sum of lst (0 for the empty list), and none of them changes
\* lst, w_lst or the attribute a of a Wrap object.
C10_SumsAgree ==
    /\ [](/\ "gen_sum_wrap" \in returned => ret.gen_sum_wrap = Total(lst)
          /\ "loop_sum_wrap" \in returned => ret.loop_sum_wrap = Total(lst)
          /\ "loop_sum" \in returned => ret.loop_sum = Total(lst)
          /\ Len(w_lst) = Len(lst)
          /\ \A i \in 1..Len(lst) : heap[w_lst[i]].a = lst[i])
    /\ [][lst' = lst /\ w_lst' = w_lst /\ heap' = heap]_vars
C10_Witness ==
    /\ {"gen_sum_wrap", "loop_sum_wrap", "loop_sum"} \subseteq returned
    /\ Len(lst) >= 3 /\ lst[1] # lst[3] /\ lst[3] < 0
    /\ ret.loop_sum_wrap = ret.gen_sum_wrap /\ ret.loop_sum = ret.gen_sum_wrap
    /\ ret.loop_sum # 0

\* C9: common_neighbors and cosine change neither their arguments nor any other
\* shared state, a step changes the locals of one call only, and however the
\* steps of concurrent calls interleave, each call returns what it returns
\* when run alone.
C9_CallsDoNotInterfere ==
    /\ [][/\ lst1' = lst1 /\ lst2' = lst2 /\ a' = a /\ b' = b
          /\ Cardinality({p \in Procs : pc'[p] # pc[p] \/ frame'[p] # frame[p]}) <= 1]_vars
    /\ [](\A p \in Procs :
            /\ pc[p] = "done_cn" => frame[p].cn = common_neighbors(lst1, lst2)
            /\ pc[p] = "done_cos" => frame[p].cos = cosine(a, b))
C9_Witness ==
    /\ pc[1] = "done_cos" /\ pc[2] = "done_cn"
    /\ frame[1].cos.k = "fin" /\ frame[1].cos.n # 0
    /\ frame[2].cn > 0
    /\ a # b /\ lst1 # lst2

=============================================================================
